---- MODULE Spec2Model ----
(***************************************************************************)
(* Model of the datapace agent's core: the Uploader (upload with bounded   *)
(* retry and exponential backoff, send_request, test_connection) and the   *)
(* Scheduler (run, collect_and_upload) with the watch-channel shutdown     *)
(* signal and the tokio interval timer it waits on.                        *)
(*                                                                         *)
(* The specifications share the variables:                                 *)
(*   SpecUpload  one Uploader, calls of upload() and test_connection()     *)
(*   Spec        one Scheduler running run() against a discrete clock      *)
(*   SpecLive    Spec under the fairness of the runtime                    *)
(*   SpecApi     Spec with a sender that may send false or be dropped      *)
(*   SpecOnce    run_once(), the dry-run path                              *)
(*   SpecConfig  loading and validating the Config, from_url               *)
(* Durations are whole seconds in SpecUpload, clock units in Spec.         *)
(* Spec sees collect() and upload() from the outside, as calls that take   *)
(* some time and return Ok or Err; SpecUpload models the inside of         *)
(* upload(), one loop iteration at a time.                                 *)
(***************************************************************************)
EXTENDS Integers, Sequences, FiniteSets, TLC

VARIABLES
    \* ---- Uploader (src/src/uploader/mod.rs) ----
    max_retries,   \* UploaderConfig.max_retries
    call,          \* the method running: none, upload, test_connection
    upc,           \* position in the current call: idle, loop, send, done
    ser_ok,        \* outcome of serde_json::to_vec for the current upload()
    attempt,       \* loop variable of `for attempt in 0..=max_retries`
    retry_delay,   \* local `retry_delay` of upload(), seconds
    last_error,    \* local `last_error` of upload(): <<>> (None) or <<e>>
    result,        \* what the current call returned (NoResult while running)
    trace,         \* sleeps and requests of the current call, in order
    prev_call,     \* how the call before ended: whether it failed, and the
                   \* retry_delay it ended with
    \* ---- Scheduler (src/src/scheduler/mod.rs) and its environment ----
    interval,      \* Scheduler.interval, clock units
    pc,            \* position of run(): start, jitter, collect, upload, select, returned
    now,           \* clock
    jitter,        \* the jitter drawn at line 62
    deadline,      \* deadline of the interval's next tick (-1: not created yet)
    shutdown,      \* value held by the watch channel
    rx_unseen,     \* the receiver has not yet seen the latest value
    tx_alive,      \* the sender has not been dropped
    inflight,      \* collect_and_upload calls started and not yet returned
    cycles,        \* every cycle in order of start: its start and end time (end -1
                   \* while it runs), whether the signal was true when it started
                   \* (cancelled), whether it became true while the cycle ran (hit)
    stage,         \* how far the latest cycle got: none, collect, upload,
                   \* collect_err, upload_err, ok
    run_result,    \* what run() returned (NoResult while running)
    payload,       \* local `payload` of collect_and_upload() and of run_once():
                   \* Some from collect()'s Ok to the return, None otherwise
    collect_calls, \* calls of collector.collect() made by the scheduler
    upload_calls,  \* calls of uploader.upload() made by the scheduler
    uploaded,      \* the payload handed to the upload() in progress, else None
    once,          \* run_once(): position (idle, collect, done), calls so far, how
                   \* collect() ended in the current call (pending, ok, err), the
                   \* result of the call, whether the call has printed
    stdout,        \* what has been written to standard output, in order
    \* ---- Config (src/src/config/mod.rs) ----
    source,        \* what the configuration is loaded from: the environment
                   \* variables, or the content of the YAML file
    loaded,        \* what from_env or from_file returned (NoConfig before)
    detected       \* what Config::database_type returned (NoConfig before)

uvars == <<max_retries, call, upc, ser_ok, attempt, retry_delay, last_error, result, trace,
           prev_call>>
cvars == <<payload, collect_calls, upload_calls, uploaded>>
ovars == <<once, stdout>>
kvars == <<source, loaded, detected>>
svars == <<interval, pc, now, jitter, deadline, shutdown, rx_unseen, tx_alive, inflight,
           cycles, stage, run_result, cvars, ovars>>
vars == <<uvars, svars, kvars>>

(***************************************************************************)
(* Bounds of the model.                                                    *)
(***************************************************************************)
MaxRetriesBound == 3    \* max_retries ranges over 0..MaxRetriesBound
MaxTime == 6            \* the clock stops here
MaxInterval == 3        \* interval ranges over 1..MaxInterval
MaxJitter == 2          \* the jitter ranges over 0..MaxJitter
MaxOnce == 2            \* run_once() is called at most this many times

(***************************************************************************)
(* Program constants.                                                      *)
(***************************************************************************)
BaseDelay == 1          \* Duration::from_secs(1)

(***************************************************************************)
(* Values.                                                                 *)
(***************************************************************************)
None == <<>>
Some(x) == <<x>>

\* Result<(), UploaderError>: kind "Ok" or the error variant; status is the
\* ServerError's status (0 otherwise); retry_after the RateLimited's
\* Option<Duration> in seconds (None otherwise).
Res(kind, status, retry_after) ==
    [kind |-> kind, status |-> status, retry_after |-> retry_after]
OkResult == Res("Ok", 0, None)
NoResult == Res("Pending", 0, None)
AuthError == Res("AuthError", 0, None)
RequestError == Res("RequestError", 0, None)
SerializationError == Res("SerializationError", 0, None)
CollectionError == Res("CollectionError", 0, None)
MaxRetriesExceeded == Res("MaxRetriesExceeded", 0, None)
ServerError(status) == Res("ServerError", status, None)
RateLimited(retry_after) == Res("RateLimited", 0, retry_after)

\* Before a configuration is loaded: no source chosen, nothing returned.
NoSource == [kind |-> "none"]
NoConfig == [kind |-> "Pending"]

\* What the network gives back for one request: a transport failure (the `?`
\* at `.send().await?`) or an HTTP response with a status and an optional
\* Retry-After header value (a sequence of bytes, one string per byte).
Digits == <<"0", "1", "2", "3", "4", "5", "6", "7", "8", "9">>
DigitSet == {Digits[i] : i \in 1..10}
VisibleAscii == DigitSet \cup {"+", "-", "a", "."}
HeaderValues ==
    { <<"0">>, <<"3">>, <<"1", "2">>, <<"a">>, <<"3", "0xFF">> }
Statuses == {200, 202, 204, 401, 403, 429, 500}
Transport == [kind |-> "transport", status |-> 0, hdr |-> None]
Http(status, hdr) == [kind |-> "http", status |-> status, hdr |-> hdr]
Responses ==
    {Transport}
    \cup {Http(s, None) : s \in Statuses}
    \cup {Http(429, Some(h)) : h \in HeaderValues}

(***************************************************************************)
(* send_request: the Retry-After header and the status match.              *)
(***************************************************************************)
\* HeaderValue::to_str: Some only when every byte is visible ASCII.
to_str(h) == IF \A i \in 1..Len(h) : h[i] \in VisibleAscii THEN Some(h) ELSE None

DigitValue(c) == (CHOOSE i \in 1..10 : Digits[i] = c) - 1

RECURSIVE DecimalValue(_)
DecimalValue(s) ==
    IF s = <<>> THEN 0
    ELSE 10 * DecimalValue(SubSeq(s, 1, Len(s) - 1)) + DigitValue(s[Len(s)])

\* str::parse::<u64>: an optional "+", then one or more decimal digits. (The
\* value must also fit in 64 bits; the header values of the model are far
\* below that.)
parse_u64(s) ==
    LET body == IF s # <<>> /\ s[1] = "+" THEN Tail(s) ELSE s
    IN  IF body # <<>> /\ (\A i \in 1..Len(body) : body[i] \in DigitSet)
        THEN Some(DecimalValue(body))
        ELSE None

\* headers().get("Retry-After").and_then(to_str).and_then(parse).map(from_secs)
retry_after_of(hdr) ==
    IF hdr = None THEN None
    ELSE IF to_str(hdr[1]) = None THEN None
    ELSE parse_u64(to_str(hdr[1])[1])

IsUploadSuccess(status) == status \in {200, 201, 202}
IsAuthStatus(status) == status \in {401, 403}

send_request(resp) ==
    IF resp.kind = "transport" THEN RequestError
    ELSE IF IsUploadSuccess(resp.status) THEN OkResult
    ELSE IF IsAuthStatus(resp.status) THEN AuthError
    ELSE IF resp.status = 429 THEN RateLimited(retry_after_of(resp.hdr))
    ELSE ServerError(resp.status)

(***************************************************************************)
(* test_connection: one GET, classified by the if/else chain.              *)
(***************************************************************************)
is_success(status) == status >= 200 /\ status <= 299

test_connection(resp) ==
    IF resp.kind = "transport" THEN RequestError
    ELSE IF is_success(resp.status) THEN OkResult
    ELSE IF resp.status = 401 THEN AuthError
    ELSE ServerError(resp.status)

(***************************************************************************)
(* upload: the pieces of the retry loop.                                   *)
(***************************************************************************)
Sleep(d) == [op |-> "sleep", d |-> d, resp |-> Transport, res |-> NoResult]
Request(resp, res) == [op |-> "request", d |-> 0, resp |-> resp, res |-> res]
Probe(resp, res) == [op |-> "probe", d |-> 0, resp |-> resp, res |-> res]

\* Mutant: the serialization error is swallowed and upload() goes on.
serialize_failed_swallowed(ok) == FALSE

\* `serde_json::to_vec(payload)?`: an Err leaves upload() at once.
serialize_failed(ok) == ~ok

\* Mutant: `0..max_retries`, the range without its upper end.
in_range_exclusive(a, m) == a < m

\* Mutant: one iteration too many.
in_range_one_more(a, m) == a <= m + 1

\* `for attempt in 0..=self.config.max_retries`
in_range(a, m) == a <= m

\* `if attempt > 0`
needs_sleep(a) == a > 0

\* Mutant: linear instead of exponential growth.
backoff_linear(d) == d + 1

\* `retry_delay *= 2`
backoff(d) == d * 2

\* Mutant: the success arm does not return.
is_ok_never(r) == FALSE

\* `Ok(()) => return Ok(())`
is_ok(r) == r.kind = "Ok"

\* Mutant: authentication failures are retried like any other error.
is_auth_error_never(e) == FALSE

\* `matches!(e, UploaderError::AuthError(_))`
is_auth_error(e) == e.kind = "AuthError"

\* Mutant: the server's delay only ever lengthens the backoff.
rate_limit_override_max(e, d) ==
    IF e.kind = "RateLimited" /\ e.retry_after # None /\ e.retry_after[1] > d
    THEN e.retry_after[1]
    ELSE d

\* `if let RateLimited { retry_after } = &e { if let Some(duration) = retry_after
\*  { retry_delay = *duration } }`
rate_limit_override(e, d) ==
    IF e.kind = "RateLimited" /\ e.retry_after # None THEN e.retry_after[1] ELSE d

\* `last_error.unwrap_or(UploaderError::MaxRetriesExceeded)`
unwrap_or(opt, dflt) == IF opt = None THEN dflt ELSE opt[1]

\* Mutant: the delay reached by a failed call is where the next call starts.
UploadBeginCarrying(ok) ==
    /\ upc = "idle"
    /\ call' = "upload"
    /\ ser_ok' = ok
    /\ trace' = <<>>
    /\ last_error' = None
    /\ retry_delay' = IF prev_call.failed /\ prev_call.retry_delay > BaseDelay
                      THEN prev_call.retry_delay
                      ELSE BaseDelay
    /\ attempt' = 0
    /\ IF serialize_failed(ok)
       THEN upc' = "done" /\ result' = SerializationError
       ELSE upc' = "loop" /\ result' = NoResult
    /\ UNCHANGED <<max_retries, prev_call>>
    /\ UNCHANGED <<svars, kvars>>

\* upload() is entered: serialization, then the locals of lines 98-99.
UploadBegin(ok) ==
    /\ upc = "idle"
    /\ call' = "upload"
    /\ ser_ok' = ok
    /\ trace' = <<>>
    /\ last_error' = None
    /\ retry_delay' = BaseDelay
    /\ attempt' = 0
    /\ IF serialize_failed(ok)
       THEN upc' = "done" /\ result' = SerializationError
       ELSE upc' = "loop" /\ result' = NoResult
    /\ UNCHANGED <<max_retries, prev_call>>
    /\ UNCHANGED <<svars, kvars>>

\* Mutant: the delay after a sleep follows the attempt number (1s, 2s, 4s,
\* ...), so a server-supplied delay holds for one sleep only.
UploadLoopResuming ==
    /\ upc = "loop"
    /\ IF in_range(attempt, max_retries)
       THEN /\ upc' = "send"
            /\ IF needs_sleep(attempt)
               THEN /\ trace' = Append(trace, Sleep(retry_delay))
                    /\ retry_delay' = BaseDelay * (2 ^ attempt)
               ELSE UNCHANGED <<trace, retry_delay>>
            /\ UNCHANGED result
       ELSE /\ upc' = "done"
            /\ result' = unwrap_or(last_error, MaxRetriesExceeded)
            /\ UNCHANGED <<trace, retry_delay>>
    /\ UNCHANGED <<max_retries, call, ser_ok, attempt, last_error, prev_call>>
    /\ UNCHANGED <<svars, kvars>>

\* Head of one loop iteration: the range test, then the sleep before a retry.
UploadLoop ==
    /\ upc = "loop"
    /\ IF in_range(attempt, max_retries)
       THEN /\ upc' = "send"
            /\ IF needs_sleep(attempt)
               THEN /\ trace' = Append(trace, Sleep(retry_delay))
                    /\ retry_delay' = backoff(retry_delay)
               ELSE UNCHANGED <<trace, retry_delay>>
            /\ UNCHANGED result
       ELSE /\ upc' = "done"
            /\ result' = unwrap_or(last_error, MaxRetriesExceeded)
            /\ UNCHANGED <<trace, retry_delay>>
    /\ UNCHANGED <<max_retries, call, ser_ok, attempt, last_error, prev_call>>
    /\ UNCHANGED <<svars, kvars>>

\* The request of one iteration and the match on its result.
UploadSend(resp) ==
    /\ upc = "send"
    /\ LET r == send_request(resp)
       IN  /\ trace' = Append(trace, Request(resp, r))
           /\ IF is_ok(r)
              THEN /\ upc' = "done" /\ result' = OkResult
                   /\ UNCHANGED <<retry_delay, last_error, attempt>>
              ELSE IF is_auth_error(r)
              THEN /\ upc' = "done" /\ result' = r
                   /\ UNCHANGED <<retry_delay, last_error, attempt>>
              ELSE /\ retry_delay' = rate_limit_override(r, retry_delay)
                   /\ last_error' = Some(r)
                   /\ attempt' = attempt + 1
                   /\ upc' = "loop"
                   /\ UNCHANGED result
    /\ UNCHANGED <<max_retries, call, ser_ok, prev_call>>
    /\ UNCHANGED <<svars, kvars>>

\* test_connection(): one GET and its classification.
TestConnection(resp) ==
    /\ upc = "idle"
    /\ call' = "test_connection"
    /\ trace' = <<Probe(resp, test_connection(resp))>>
    /\ result' = test_connection(resp)
    /\ upc' = "done"
    /\ UNCHANGED <<max_retries, ser_ok, attempt, retry_delay, last_error, prev_call>>
    /\ UNCHANGED <<svars, kvars>>

\* The caller takes the result; the locals of the call are gone.
UploaderReturn ==
    /\ upc = "done"
    /\ upc' = "idle"
    /\ call' = "none"
    /\ result' = NoResult
    /\ trace' = <<>>
    /\ ser_ok' = TRUE
    /\ attempt' = 0
    /\ retry_delay' = 0
    /\ last_error' = None
    /\ prev_call' = [failed |-> result # OkResult, retry_delay |-> retry_delay]
    /\ UNCHANGED max_retries
    /\ UNCHANGED <<svars, kvars>>

\* Scheduler::new(.., shutdown_rx) on a fresh watch::channel(false); run() not
\* yet polled.
SchedNew(sender_kept) ==
    /\ pc = "start" /\ now = 0 /\ jitter = 0 /\ deadline = -1
    /\ shutdown = FALSE /\ rx_unseen = FALSE /\ tx_alive = sender_kept
    /\ inflight = 0 /\ cycles = <<>> /\ stage = "none"
    /\ run_result = NoResult
    /\ payload = None /\ collect_calls = 0 /\ upload_calls = 0 /\ uploaded = None
    /\ once = [pc |-> "idle", calls |-> 0, collected |-> "pending", result |-> NoResult,
               printed |-> FALSE]
    /\ stdout = <<>>

SchedIdle == SchedNew(TRUE)

UploaderIdle ==
    /\ call = "none" /\ upc = "idle" /\ ser_ok = TRUE /\ attempt = 0 /\ retry_delay = 0
    /\ last_error = None /\ result = NoResult /\ trace = <<>>
    /\ prev_call = [failed |-> FALSE, retry_delay |-> 0]

\* No configuration has been loaded.
ConfigIdle ==
    /\ source = NoSource /\ loaded = NoConfig /\ detected = NoConfig

\* Uploader::new with any max_retries (UploaderConfig's field is public; ::new
\* sets 3).
InitUpload ==
    /\ max_retries \in 0..MaxRetriesBound
    /\ UploaderIdle
    /\ interval = 1
    /\ SchedIdle
    /\ ConfigIdle

NextUpload ==
    \/ \E ok \in BOOLEAN : UploadBegin(ok)
    \/ UploadLoop
    \/ \E resp \in Responses : UploadSend(resp)
    \/ \E resp \in Responses : TestConnection(resp)
    \/ UploaderReturn

SpecUpload == InitUpload /\ [][NextUpload]_vars

(***************************************************************************)
(* Scheduler::run and collect_and_upload, with the tokio primitives run()  *)
(* waits on: time::sleep, time::interval with MissedTickBehavior::Skip,    *)
(* watch::Receiver::changed, and select! over the last two.                *)
(***************************************************************************)
\* Interval::tick is ready once the clock has reached the deadline.
tick_ready == deadline >= 0 /\ now >= deadline

\* Receiver::changed is ready when a value has not been seen yet (Ok) or the
\* sender is gone (Err).
changed_ready == rx_unseen \/ ~tx_alive

\* Mutant: MissedTickBehavior::Burst, every missed tick is still delivered.
next_timeout_burst(timeout, t, period) == timeout + period

\* The deadline after a tick that fired at `now` for the deadline `timeout`:
\* one period later when on time, and under MissedTickBehavior::Skip the next
\* multiple of the period after `now`, counted from `timeout`, when late.
next_timeout(timeout, t, period) ==
    IF t > timeout
    THEN t + period - ((t - timeout) % period)
    ELSE timeout + period

\* String::new()
EmptyString == <<>>

\* Payload::new: the timestamp is Utc::now() and the instance id is left empty
\* ("Set later"). Of the payload only these and the database type are
\* modelled.
Payload_new(database_type) ==
    [timestamp |-> now, instance_id |-> EmptyString, database_type |-> database_type]

\* PostgresCollector::collect on success: Payload::new(database_info) and the
\* with_* builders of the metric groups; with_instance_id is not among them.
collect_payload == Payload_new("postgres")

\* collect_and_upload() is called: collect() is the first thing it awaits.
StartCycle ==
    /\ inflight' = inflight + 1
    /\ cycles' = Append(cycles, [start |-> now, end |-> -1, cancelled |-> shutdown,
                                 hit |-> FALSE])
    /\ stage' = "collect"
    /\ collect_calls' = collect_calls + 1

\* collect_and_upload() returns, having got as far as `st`.
EndCycle(st) ==
    /\ inflight' = inflight - 1
    /\ cycles' = [cycles EXCEPT ![Len(cycles)].end = now]
    /\ stage' = st

\* run() is polled for the first time: the jitter is drawn and the sleep starts.
\* rand::random::<u64>() reads eight bytes out of a four-byte value, so the
\* jitter is whatever the build makes of it, modulo the 5000 ms: any value of
\* the range.
RunStart(j) ==
    /\ pc = "start"
    /\ jitter' = j
    /\ pc' = "jitter"
    /\ UNCHANGED <<interval, now, deadline, shutdown, rx_unseen, tx_alive, inflight,
                   cycles, stage, run_result, cvars>>
    /\ UNCHANGED <<uvars, ovars, kvars>>

\* Mutant: run() looks at the signal after the jitter sleep and returns
\* without a cycle when it is true.
JitterDoneChecked ==
    /\ pc = "jitter"
    /\ now >= jitter
    /\ deadline' = now
    /\ IF shutdown
       THEN /\ pc' = "returned"
            /\ run_result' = OkResult
            /\ UNCHANGED <<inflight, cycles, stage, collect_calls>>
       ELSE /\ StartCycle
            /\ pc' = "collect"
            /\ UNCHANGED run_result
    /\ UNCHANGED <<interval, now, jitter, shutdown, rx_unseen, tx_alive,
                   payload, upload_calls, uploaded>>
    /\ UNCHANGED <<uvars, ovars, kvars>>

\* The jitter sleep is over: the interval is created (its first tick is due
\* at once) and the first cycle is started.
JitterDone ==
    /\ pc = "jitter"
    /\ now >= jitter
    /\ deadline' = now
    /\ StartCycle
    /\ pc' = "collect"
    /\ UNCHANGED <<interval, now, jitter, shutdown, rx_unseen, tx_alive, run_result,
                   payload, upload_calls, uploaded>>
    /\ UNCHANGED <<uvars, ovars, kvars>>

\* Mutant: a collect() error leaves run() (`?` instead of the match).
CollectReturnPropagated(ok) ==
    /\ pc = "collect"
    /\ IF ok
       THEN /\ pc' = "upload"
            /\ stage' = "upload"
            /\ payload' = Some(collect_payload)
            /\ upload_calls' = upload_calls + 1
            /\ uploaded' = payload'
            /\ UNCHANGED <<inflight, cycles, run_result>>
       ELSE /\ pc' = "returned"
            /\ run_result' = CollectionError
            /\ EndCycle("collect_err")
            /\ UNCHANGED <<payload, upload_calls, uploaded>>
    /\ UNCHANGED <<interval, now, jitter, deadline, shutdown, rx_unseen, tx_alive,
                   collect_calls>>
    /\ UNCHANGED <<uvars, ovars, kvars>>

\* collector.collect() returns: Ok goes on to upload(), Err ends the cycle.
CollectReturn(ok) ==
    /\ pc = "collect"
    /\ IF ok
       THEN /\ pc' = "upload"
            /\ stage' = "upload"
            /\ payload' = Some(collect_payload)
            /\ upload_calls' = upload_calls + 1
            /\ uploaded' = payload'
            /\ UNCHANGED <<inflight, cycles>>
       ELSE /\ pc' = "select"
            /\ EndCycle("collect_err")
            /\ UNCHANGED <<payload, upload_calls, uploaded>>
    /\ UNCHANGED <<interval, now, jitter, deadline, shutdown, rx_unseen, tx_alive,
                   run_result, collect_calls>>
    /\ UNCHANGED <<uvars, ovars, kvars>>

\* Mutant: the scheduler hands the payload to upload() again after an Err.
UploadReturnRetrying(ok) ==
    /\ pc = "upload"
    /\ IF ok
       THEN /\ pc' = "select"
            /\ EndCycle("ok")
            /\ payload' = None
            /\ uploaded' = None
            /\ UNCHANGED upload_calls
       ELSE /\ pc' = "upload"
            /\ upload_calls' = upload_calls + 1
            /\ UNCHANGED <<inflight, cycles, stage, payload, uploaded>>
    /\ UNCHANGED <<interval, now, jitter, deadline, shutdown, rx_unseen, tx_alive,
                   run_result, collect_calls>>
    /\ UNCHANGED <<uvars, ovars, kvars>>

\* uploader.upload() returns, Ok or Err: the cycle ends either way, and the
\* payload is dropped with it.
UploadReturn(ok) ==
    /\ pc = "upload"
    /\ pc' = "select"
    /\ EndCycle(IF ok THEN "ok" ELSE "upload_err")
    /\ payload' = None
    /\ uploaded' = None
    /\ UNCHANGED <<interval, now, jitter, deadline, shutdown, rx_unseen, tx_alive,
                   run_result, collect_calls, upload_calls>>
    /\ UNCHANGED <<uvars, ovars, kvars>>

\* Mutant: the cycle is spawned instead of awaited, the loop goes straight
\* back to select!.
TickBranchSpawned ==
    /\ pc = "select"
    /\ tick_ready
    /\ deadline' = next_timeout(deadline, now, interval)
    /\ StartCycle
    /\ pc' = "select"
    /\ UNCHANGED <<interval, now, jitter, shutdown, rx_unseen, tx_alive, run_result,
                   payload, upload_calls, uploaded>>
    /\ UNCHANGED <<uvars, ovars, kvars>>

\* select! takes the tick branch: the interval moves to its next deadline and
\* a cycle is run to its end before the loop comes back to select!.
TickBranch ==
    /\ pc = "select"
    /\ tick_ready
    /\ deadline' = next_timeout(deadline, now, interval)
    /\ StartCycle
    /\ pc' = "collect"
    /\ UNCHANGED <<interval, now, jitter, shutdown, rx_unseen, tx_alive, run_result,
                   payload, upload_calls, uploaded>>
    /\ UNCHANGED <<uvars, ovars, kvars>>

\* Mutant: select! also races the running cycle against changed(), so a
\* signal drops the cycle where it is.
ChangedBranchAborting ==
    /\ pc \in {"select", "collect", "upload"}
    /\ changed_ready
    /\ rx_unseen' = FALSE
    /\ IF shutdown
       THEN pc' = "returned" /\ run_result' = OkResult
       ELSE pc' = pc /\ UNCHANGED run_result
    /\ UNCHANGED <<interval, now, jitter, deadline, shutdown, tx_alive, inflight, cycles,
                   stage, cvars>>
    /\ UNCHANGED <<uvars, ovars, kvars>>

\* Mutant: the value is not tested, any wake-up of changed() returns.
ChangedBranchUntested ==
    /\ pc = "select"
    /\ changed_ready
    /\ rx_unseen' = FALSE
    /\ pc' = "returned" /\ run_result' = OkResult
    /\ UNCHANGED <<interval, now, jitter, deadline, shutdown, tx_alive, inflight, cycles,
                   stage, cvars>>
    /\ UNCHANGED <<uvars, ovars, kvars>>

\* Mutant: the test is inverted, run() returns on a false value.
ChangedBranchInverted ==
    /\ pc = "select"
    /\ changed_ready
    /\ rx_unseen' = FALSE
    /\ IF ~shutdown
       THEN pc' = "returned" /\ run_result' = OkResult
       ELSE pc' = "select" /\ UNCHANGED run_result
    /\ UNCHANGED <<interval, now, jitter, deadline, shutdown, tx_alive, inflight, cycles,
                   stage, cvars>>
    /\ UNCHANGED <<uvars, ovars, kvars>>

\* select! takes the changed() branch: the value is marked seen, and run()
\* returns Ok when the value borrowed is true.
ChangedBranch ==
    /\ pc = "select"
    /\ changed_ready
    /\ rx_unseen' = FALSE
    /\ IF shutdown
       THEN pc' = "returned" /\ run_result' = OkResult
       ELSE pc' = "select" /\ UNCHANGED run_result
    /\ UNCHANGED <<interval, now, jitter, deadline, shutdown, tx_alive, inflight, cycles,
                   stage, cvars>>
    /\ UNCHANGED <<uvars, ovars, kvars>>

\* Mutant: the handler flips the value and keeps the sender.
SignalShutdownToggling ==
    /\ tx_alive
    /\ shutdown' = ~shutdown
    /\ rx_unseen' = TRUE
    /\ cycles' = IF inflight >= 1
                 THEN [cycles EXCEPT ![Len(cycles)].hit = TRUE]
                 ELSE cycles
    /\ UNCHANGED <<interval, pc, now, jitter, deadline, tx_alive, inflight, stage,
                   run_result, cvars>>
    /\ UNCHANGED <<uvars, ovars, kvars>>

\* The signal-handler task of main: shutdown_tx.send(true), then the task ends
\* and drops the sender.
SignalShutdown ==
    /\ tx_alive
    /\ shutdown' = TRUE
    /\ rx_unseen' = TRUE
    /\ tx_alive' = FALSE
    /\ cycles' = IF inflight >= 1
                 THEN [cycles EXCEPT ![Len(cycles)].hit = TRUE]
                 ELSE cycles
    /\ UNCHANGED <<interval, pc, now, jitter, deadline, inflight, stage,
                   run_result, cvars>>
    /\ UNCHANGED <<uvars, ovars, kvars>>

\* The clock advances, unless run() can take a step now: a task whose sleep
\* is over, whose tick is due or whose receiver has a value to see is polled
\* first. (A changed() that is ready only because the sender is gone makes
\* the loop spin; the clock goes on meanwhile.)
Advance ==
    /\ now < MaxTime
    /\ pc # "start"
    /\ ~(pc = "jitter" /\ now >= jitter)
    /\ ~(pc = "select" /\ (tick_ready \/ rx_unseen))
    /\ now' = now + 1
    /\ UNCHANGED <<interval, pc, jitter, deadline, shutdown, rx_unseen, tx_alive, inflight,
                   cycles, stage, run_result, cvars>>
    /\ UNCHANGED <<uvars, ovars, kvars>>

Init ==
    /\ max_retries = 3
    /\ UploaderIdle
    /\ interval \in 1..MaxInterval
    /\ SchedIdle
    /\ ConfigIdle

Next ==
    \/ \E j \in 0..MaxJitter : RunStart(j)
    \/ JitterDone
    \/ \E ok \in BOOLEAN : CollectReturn(ok)
    \/ \E ok \in BOOLEAN : UploadReturn(ok)
    \/ TickBranch
    \/ ChangedBranch
    \/ SignalShutdown
    \/ Advance

Spec == Init /\ [][Next]_vars

(***************************************************************************)
(* run() under the fairness its runtime gives: sleeps end, the clock goes  *)
(* on, every collect() and upload() call returns, and select!, which polls *)
(* its branches in random order, does not pass over a branch that is ready *)
(* again and again.                                                        *)
(***************************************************************************)
SpecLive ==
    /\ Init
    /\ [][Next]_vars
    /\ WF_vars(\E j \in 0..MaxJitter : RunStart(j))
    /\ WF_vars(JitterDone)
    /\ WF_vars(Advance)
    /\ WF_vars(\E ok \in BOOLEAN : CollectReturn(ok))
    /\ WF_vars(\E ok \in BOOLEAN : UploadReturn(ok))
    /\ SF_vars(ChangedBranch)

(***************************************************************************)
(* run() of a Scheduler built by any caller: the sender of the channel may *)
(* also send false, or be dropped without having sent true.                *)
(***************************************************************************)
\* Sender::send(false): the value is stored and the receiver notified.
SendFalse ==
    /\ tx_alive
    /\ pc # "returned"
    /\ shutdown' = FALSE
    /\ rx_unseen' = TRUE
    /\ UNCHANGED <<interval, pc, now, jitter, deadline, tx_alive, inflight, cycles, stage,
                   run_result, cvars>>
    /\ UNCHANGED <<uvars, ovars, kvars>>

\* The sender is dropped, as in `let (_, shutdown_rx) = watch::channel(false)`.
DropSender ==
    /\ tx_alive
    /\ tx_alive' = FALSE
    /\ UNCHANGED <<interval, pc, now, jitter, deadline, shutdown, rx_unseen, inflight,
                   cycles, stage, run_result, cvars>>
    /\ UNCHANGED <<uvars, ovars, kvars>>

NextApi ==
    \/ Next
    \/ SendFalse
    \/ DropSender

SpecApi == Init /\ [][NextApi]_vars

(***************************************************************************)
(* Scheduler::run_once, the dry-run path of main.                          *)
(***************************************************************************)
\* Payload::to_json_pretty on success: the text of the payload.
to_json_pretty(p) == <<"{", p.timestamp, p.instance_id, p.database_type, "}">>

\* run_once() is called: collect() is the first thing it awaits.
RunOnceCall ==
    /\ once.pc = "idle"
    /\ once.calls < MaxOnce
    /\ once' = [pc |-> "collect", calls |-> once.calls + 1, collected |-> "pending",
                result |-> NoResult, printed |-> FALSE]
    /\ collect_calls' = collect_calls + 1
    /\ UNCHANGED <<interval, pc, now, jitter, deadline, shutdown, rx_unseen, tx_alive,
                   inflight, cycles, stage, run_result, payload, upload_calls, uploaded,
                   stdout>>
    /\ UNCHANGED <<uvars, kvars>>

\* Mutant: the payload is also handed to the uploader, as a cycle of run() does.
RunOnceCollectedUploading(ok, json_ok) ==
    /\ once.pc = "collect"
    /\ IF ~ok
       THEN /\ once' = [once EXCEPT !.pc = "done", !.collected = "err",
                                     !.result = CollectionError]
            /\ UNCHANGED <<payload, stdout, upload_calls, uploaded>>
       ELSE /\ payload' = Some(collect_payload)
            /\ upload_calls' = upload_calls + 1
            /\ uploaded' = payload'
            /\ IF json_ok
               THEN /\ stdout' = Append(stdout, to_json_pretty(collect_payload))
                    /\ once' = [once EXCEPT !.pc = "done", !.collected = "ok",
                                             !.result = OkResult, !.printed = TRUE]
               ELSE /\ once' = [once EXCEPT !.pc = "done", !.collected = "ok",
                                             !.result = OkResult]
                    /\ UNCHANGED stdout
    /\ UNCHANGED <<interval, pc, now, jitter, deadline, shutdown, rx_unseen, tx_alive,
                   inflight, cycles, stage, run_result, collect_calls>>
    /\ UNCHANGED <<uvars, kvars>>

\* Mutant: a collect() error is logged and absorbed, as a cycle of run() does.
RunOnceCollectedAbsorbing(ok, json_ok) ==
    /\ once.pc = "collect"
    /\ IF ~ok
       THEN /\ once' = [once EXCEPT !.pc = "done", !.collected = "err",
                                     !.result = OkResult]
            /\ UNCHANGED <<payload, stdout>>
       ELSE /\ payload' = Some(collect_payload)
            /\ IF json_ok
               THEN /\ stdout' = Append(stdout, to_json_pretty(collect_payload))
                    /\ once' = [once EXCEPT !.pc = "done", !.collected = "ok",
                                             !.result = OkResult, !.printed = TRUE]
               ELSE /\ once' = [once EXCEPT !.pc = "done", !.collected = "ok",
                                             !.result = OkResult]
                    /\ UNCHANGED stdout
    /\ UNCHANGED <<interval, pc, now, jitter, deadline, shutdown, rx_unseen, tx_alive,
                   inflight, cycles, stage, run_result, collect_calls, upload_calls, uploaded>>
    /\ UNCHANGED <<uvars, kvars>>

\* collect() returns: an Err leaves run_once() through `?` as a
\* CollectionError; on Ok the payload is printed when to_json_pretty gives
\* the text, a serialization error is only logged, and run_once() returns
\* Ok either way.
RunOnceCollected(ok, json_ok) ==
    /\ once.pc = "collect"
    /\ IF ~ok
       THEN /\ once' = [once EXCEPT !.pc = "done", !.collected = "err",
                                     !.result = CollectionError]
            /\ UNCHANGED <<payload, stdout>>
       ELSE /\ payload' = Some(collect_payload)
            /\ IF json_ok
               THEN /\ stdout' = Append(stdout, to_json_pretty(collect_payload))
                    /\ once' = [once EXCEPT !.pc = "done", !.collected = "ok",
                                             !.result = OkResult, !.printed = TRUE]
               ELSE /\ once' = [once EXCEPT !.pc = "done", !.collected = "ok",
                                             !.result = OkResult]
                    /\ UNCHANGED stdout
    /\ UNCHANGED <<interval, pc, now, jitter, deadline, shutdown, rx_unseen, tx_alive,
                   inflight, cycles, stage, run_result, collect_calls, upload_calls, uploaded>>
    /\ UNCHANGED <<uvars, kvars>>

\* The caller has the result of run_once().
RunOnceReturn ==
    /\ once.pc = "done"
    /\ once' = [once EXCEPT !.pc = "idle"]
    /\ payload' = None
    /\ UNCHANGED <<interval, pc, now, jitter, deadline, shutdown, rx_unseen, tx_alive,
                   inflight, cycles, stage, run_result, collect_calls, upload_calls,
                   uploaded, stdout>>
    /\ UNCHANGED <<uvars, kvars>>

\* The clock goes on while collect() is awaited.
AdvanceOnce ==
    /\ now < MaxTime
    /\ once.pc = "collect"
    /\ now' = now + 1
    /\ UNCHANGED <<interval, pc, jitter, deadline, shutdown, rx_unseen, tx_alive,
                   inflight, cycles, stage, run_result, cvars, ovars>>
    /\ UNCHANGED <<uvars, kvars>>

\* main in dry-run mode: the Scheduler is built on a channel whose sender is
\* dropped at once, and run() is never called.
InitOnce ==
    /\ max_retries = 3
    /\ UploaderIdle
    /\ interval \in 1..MaxInterval
    /\ SchedNew(FALSE)
    /\ ConfigIdle

NextOnce ==
    \/ RunOnceCall
    \/ \E ok \in BOOLEAN, json_ok \in BOOLEAN : RunOnceCollected(ok, json_ok)
    \/ RunOnceReturn
    \/ AdvanceOnce

SpecOnce == InitOnce /\ [][NextOnce]_vars

(***************************************************************************)
(* Config: DatabaseType::from_url, parse_duration_secs, Config::validate,  *)
(* Config::from_env and Config::from_file. Strings are sequences of        *)
(* characters, one string per character.                                   *)
(***************************************************************************)
UpperLetters ==
    <<"A", "B", "C", "D", "E", "F", "G", "H", "I", "J", "K", "L", "M",
      "N", "O", "P", "Q", "R", "S", "T", "U", "V", "W", "X", "Y", "Z">>
LowerLetters ==
    <<"a", "b", "c", "d", "e", "f", "g", "h", "i", "j", "k", "l", "m",
      "n", "o", "p", "q", "r", "s", "t", "u", "v", "w", "x", "y", "z">>

\* char::to_lowercase on ASCII.
lower_char(ch) ==
    IF \E i \in 1..26 : UpperLetters[i] = ch
    THEN LowerLetters[CHOOSE i \in 1..26 : UpperLetters[i] = ch]
    ELSE ch

\* str::to_lowercase
to_lowercase(str) == [i \in 1..Len(str) |-> lower_char(str[i])]

\* str::starts_with
starts_with(str, pat) ==
    Len(str) >= Len(pat) /\ SubSeq(str, 1, Len(pat)) = pat

\* str::ends_with
ends_with(str, pat) ==
    Len(str) >= Len(pat) /\ SubSeq(str, Len(str) - Len(pat) + 1, Len(str)) = pat

\* str::contains
contains(str, pat) ==
    \E i \in 1..(Len(str) - Len(pat) + 1) : SubSeq(str, i, i + Len(pat) - 1) = pat

\* str::trim, for the space character.
trim(str) ==
    LET kept == {i \in 1..Len(str) : str[i] # " "}
    IN  IF kept = {} THEN <<>>
        ELSE SubSeq(str, CHOOSE i \in kept : \A j \in kept : i <= j,
                         CHOOSE i \in kept : \A j \in kept : i >= j)

\* Result<DatabaseType, ConfigError> and Result<Config, ConfigError>
OkType(t) == [kind |-> "Ok", value |-> t]
ConfigErr(e) == [kind |-> "Err", error |-> e]
OkConfig(cfg) == [kind |-> "Ok", config |-> cfg]

\* DatabaseType::from_url: the lower-cased URL goes down the chain of scheme
\* and host tests, the first that matches decides.
from_url(url) ==
    LET url_lower == to_lowercase(url)
    IN
        IF (starts_with(url_lower,
                 <<"p", "o", "s", "t", "g", "r", "e", "s", ":", "/", "/">>)) \/
            (starts_with(url_lower,
                 <<"p", "o", "s", "t", "g", "r", "e", "s", "q", "l", ":",
                   "/", "/">>))
        THEN (IF (contains(url_lower,
                      <<"t", "i", "m", "e", "s", "c", "a", "l", "e">>))
             THEN OkType("Timescaledb")
             ELSE IF (contains(url_lower,
                          <<"c", "o", "c", "k", "r", "o", "a", "c", "h">>))
             THEN OkType("Cockroachdb")
             ELSE IF (contains(url_lower,
                          <<"y", "u", "g", "a", "b", "y", "t", "e">>))
             THEN OkType("Yugabytedb")
             ELSE OkType("Postgres"))
        ELSE IF (starts_with(url_lower,
                 <<"m", "y", "s", "q", "l", ":", "/", "/">>)) \/
            (starts_with(url_lower,
                 <<"m", "a", "r", "i", "a", "d", "b", ":", "/", "/">>))
        THEN (IF (contains(url_lower,
                      <<"t", "i", "d", "b">>))
             THEN OkType("Tidb")
             ELSE OkType("Mysql"))
        ELSE IF (starts_with(url_lower,
                 <<"m", "o", "n", "g", "o", "d", "b", ":", "/", "/">>)) \/
            (starts_with(url_lower,
                 <<"m", "o", "n", "g", "o", "d", "b", "+", "s", "r", "v",
                   ":", "/", "/">>))
        THEN OkType("Mongodb")
        ELSE IF (starts_with(url_lower,
                 <<"s", "q", "l", "s", "e", "r", "v", "e", "r", ":", "/",
                   "/">>)) \/
            (starts_with(url_lower,
                 <<"m", "s", "s", "q", "l", ":", "/", "/">>)) \/
            (contains(url_lower,
                 <<"d", "a", "t", "a", "b", "a", "s", "e", ".", "w", "i",
                   "n", "d", "o", "w", "s", ".", "n", "e", "t">>))
        THEN OkType("Sqlserver")
        ELSE IF (starts_with(url_lower,
                 <<"o", "r", "a", "c", "l", "e", ":", "/", "/">>)) \/
            (contains(url_lower,
                 <<"o", "r", "a", "c", "l", "e", "c", "l", "o", "u", "d",
                   ".", "c", "o", "m">>))
        THEN OkType("Oracle")
        ELSE IF (starts_with(url_lower,
                 <<"d", "b", "2", ":", "/", "/">>)) \/
            (starts_with(url_lower,
                 <<"i", "b", "m", "d", "b", ":", "/", "/">>))
        THEN OkType("Db2")
        ELSE IF (starts_with(url_lower,
                 <<"r", "e", "d", "i", "s", ":", "/", "/">>)) \/
            (starts_with(url_lower,
                 <<"r", "e", "d", "i", "s", "s", ":", "/", "/">>))
        THEN OkType("Redis")
        ELSE IF (starts_with(url_lower,
                 <<"e", "l", "a", "s", "t", "i", "c", "s", "e", "a", "r",
                   "c", "h", ":", "/", "/">>)) \/
            ((starts_with(url_lower,
                  <<"h", "t", "t", "p", "s", ":", "/", "/">>)) /\
             (contains(url_lower,
                  <<"e", "l", "a", "s", "t", "i", "c">>)))
        THEN OkType("Elasticsearch")
        ELSE IF (starts_with(url_lower,
                 <<"c", "l", "i", "c", "k", "h", "o", "u", "s", "e", ":",
                   "/", "/">>)) \/
            (contains(url_lower,
                 <<"c", "l", "i", "c", "k", "h", "o", "u", "s", "e">>))
        THEN OkType("Clickhouse")
        ELSE IF (contains(url_lower,
                 <<"c", "o", "s", "m", "o", "s", ".", "a", "z", "u", "r",
                   "e", ".", "c", "o", "m">>)) \/
            (contains(url_lower,
                 <<"c", "o", "s", "m", "o", "s", "d", "b">>))
        THEN OkType("Cosmosdb")
        ELSE IF (starts_with(url_lower,
                 <<"c", "o", "u", "c", "h", "b", "a", "s", "e", ":", "/",
                   "/">>)) \/
            (starts_with(url_lower,
                 <<"c", "o", "u", "c", "h", "b", "a", "s", "e", "s", ":",
                   "/", "/">>))
        THEN OkType("Couchbase")
        ELSE IF (contains(url_lower,
                 <<"s", "n", "o", "w", "f", "l", "a", "k", "e", "c", "o",
                   "m", "p", "u", "t", "i", "n", "g", ".", "c", "o", "m">>))
        THEN OkType("Snowflake")
        ELSE IF (starts_with(url_lower,
                 <<"b", "i", "g", "q", "u", "e", "r", "y", ":", "/", "/">>)) \/
            (contains(url_lower,
                 <<"b", "i", "g", "q", "u", "e", "r", "y", ".", "g", "o",
                   "o", "g", "l", "e", "a", "p", "i", "s", ".", "c", "o",
                   "m">>))
        THEN OkType("Bigquery")
        ELSE IF (contains(url_lower,
                 <<"r", "e", "d", "s", "h", "i", "f", "t", ".", "a", "m",
                   "a", "z", "o", "n", "a", "w", "s", ".", "c", "o", "m">>))
        THEN OkType("Redshift")
        ELSE IF (contains(url_lower,
                 <<"d", "y", "n", "a", "m", "o", "d", "b">>))
        THEN OkType("Dynamodb")
        ELSE IF (starts_with(url_lower,
                 <<"i", "n", "f", "l", "u", "x", "d", "b", ":", "/", "/">>)) \/
            (contains(url_lower,
                 <<"i", "n", "f", "l", "u", "x", "d", "a", "t", "a">>))
        THEN OkType("Influxdb")
        ELSE IF (contains(url_lower,
                 <<"p", "i", "n", "e", "c", "o", "n", "e", ".", "i", "o">>)) \/
            (contains(url_lower,
                 <<"p", "i", "n", "e", "c", "o", "n", "e">>))
        THEN OkType("Pinecone")
        ELSE IF (contains(url_lower,
                 <<"m", "i", "l", "v", "u", "s">>)) \/
            (starts_with(url_lower,
                 <<"m", "i", "l", "v", "u", "s", ":", "/", "/">>))
        THEN OkType("Milvus")
        ELSE IF (contains(url_lower,
                 <<"w", "e", "a", "v", "i", "a", "t", "e">>))
        THEN OkType("Weaviate")
        ELSE IF (contains(url_lower,
                 <<"q", "d", "r", "a", "n", "t">>))
        THEN OkType("Qdrant")
        ELSE IF (contains(url_lower,
                 <<"c", "h", "r", "o", "m", "a">>))
        THEN OkType("Chroma")
        ELSE ConfigErr("UnsupportedDatabase")

default_interval_secs == 60
MinIntervalSecs == 10

\* parse_duration_secs: "60s", "5m", "1h" or a bare number, in seconds. (The
\* product wraps at 64 bits in a release build; the numbers of the model are
\* far below that.)
parse_duration_secs(str) ==
    LET t == trim(str)
        unit == IF ends_with(t, <<"s">>) THEN 1
                ELSE IF ends_with(t, <<"m">>) THEN 60
                ELSE IF ends_with(t, <<"h">>) THEN 3600
                ELSE 0
        num_str == IF unit = 0 THEN t ELSE SubSeq(t, 1, Len(t) - 1)
        n == parse_u64(num_str)
    IN  IF t = <<>> THEN None
        ELSE IF n = None THEN None
        ELSE Some(n[1] * (IF unit = 0 THEN 1 ELSE unit))

\* Of a Config, the three fields validate() looks at.
Config(api_key, url, interval_secs) ==
    [api_key |-> api_key, url |-> url, interval_secs |-> interval_secs]

\* Mutant: any positive interval passes.
validate_positive(cfg) ==
    IF cfg.api_key = <<>> THEN ConfigErr("ValidationError")
    ELSE IF cfg.url = <<>> THEN ConfigErr("ValidationError")
    ELSE IF from_url(cfg.url).kind = "Err" THEN from_url(cfg.url)
    ELSE IF cfg.interval_secs < 1 THEN ConfigErr("ValidationError")
    ELSE OkConfig(cfg)

\* Config::validate followed by `Ok(config)`: the first failing test decides.
validate(cfg) ==
    IF cfg.api_key = <<>> THEN ConfigErr("ValidationError")
    ELSE IF cfg.url = <<>> THEN ConfigErr("ValidationError")
    ELSE IF from_url(cfg.url).kind = "Err" THEN from_url(cfg.url)
    ELSE IF cfg.interval_secs < MinIntervalSecs THEN ConfigErr("ValidationError")
    ELSE OkConfig(cfg)

\* Config::from_env on the variables DATAPACE_API_KEY, DATABASE_URL and
\* COLLECTION_INTERVAL (None: not set).
from_env(env) ==
    IF env.api_key = None THEN ConfigErr("MissingField")
    ELSE IF env.database_url = None THEN ConfigErr("MissingField")
    ELSE LET parsed == IF env.interval = None THEN None
                       ELSE parse_duration_secs(env.interval[1])
             interval_secs == IF parsed = None THEN default_interval_secs ELSE parsed[1]
         IN  validate(Config(env.api_key[1], env.database_url[1], interval_secs))

\* Config::from_file on a file that cannot be read (content None), whose
\* text is not a Config (doc None), or that holds a Config, the interval
\* being default_interval_secs where the file leaves it out.
from_file(file) ==
    IF file.content = None THEN ConfigErr("ReadError")
    ELSE IF file.content[1] = None THEN ConfigErr("ParseError")
    ELSE LET doc == file.content[1][1]
         IN  validate(Config(doc.api_key, doc.url,
                             IF doc.interval_secs = None THEN default_interval_secs
                             ELSE doc.interval_secs[1]))

\* The inputs.
Urls ==
    { <<"p", "o", "s", "t", "g", "r", "e", "s", ":", "/", "/", "h", "/", "d", "b">>,
      <<"p", "o", "s", "t", "g", "r", "e", "s", "q", "l", ":", "/", "/", "h", "/",
        "d", "b">>,
      <<"P", "O", "S", "T", "G", "R", "E", "S", ":", "/", "/", "H", "/", "D", "B">>,
      <<"p", "o", "s", "t", "g", "r", "e", "s", ":", "/", "/", "t", "i", "m", "e",
        "s", "c", "a", "l", "e", "d", "b", ".", "h", "/", "d", "b">>,
      <<"p", "o", "s", "t", "g", "r", "e", "s", ":", "/", "/", "c", "o", "c", "k",
        "r", "o", "a", "c", "h", "d", "b", ".", "h", "/", "d", "b">>,
      <<"p", "o", "s", "t", "g", "r", "e", "s", "q", "l", ":", "/", "/", "y", "u",
        "g", "a", "b", "y", "t", "e", ".", "h", "/", "d", "b">>,
      <<"p", "o", "s", "t", "g", "r", "e", "s", ":", "/", "/", "a", ".", "r", "e",
        "d", "s", "h", "i", "f", "t", ".", "a", "m", "a", "z", "o", "n", "a", "w",
        "s", ".", "c", "o", "m", "/", "d", "b">>,
      <<"h", "t", "t", "p", "s", ":", "/", "/", "a", ".", "r", "e", "d", "s", "h",
        "i", "f", "t", ".", "a", "m", "a", "z", "o", "n", "a", "w", "s", ".", "c",
        "o", "m">>,
      <<"m", "y", "s", "q", "l", ":", "/", "/", "h", "/", "d", "b">>,
      <<"m", "a", "r", "i", "a", "d", "b", ":", "/", "/", "h", "/", "d", "b">>,
      <<"m", "o", "n", "g", "o", "d", "b", ":", "/", "/", "h", "/", "d", "b">>,
      <<"m", "o", "n", "g", "o", "d", "b", "+", "s", "r", "v", ":", "/", "/", "h",
        "/", "d", "b">>,
      <<"s", "q", "l", "s", "e", "r", "v", "e", "r", ":", "/", "/", "h", "/", "d",
        "b">>,
      <<"m", "s", "s", "q", "l", ":", "/", "/", "a", ".", "d", "a", "t", "a", "b",
        "a", "s", "e", ".", "w", "i", "n", "d", "o", "w", "s", ".", "n", "e", "t",
        "/", "d", "b">>,
      <<"h", "t", "t", "p", "s", ":", "/", "/", "a", ".", "c", "o", "s", "m", "o",
        "s", ".", "a", "z", "u", "r", "e", ".", "c", "o", "m">>,
      <<"h", "t", "t", "p", "s", ":", "/", "/", "a", ".", "s", "n", "o", "w", "f",
        "l", "a", "k", "e", "c", "o", "m", "p", "u", "t", "i", "n", "g", ".", "c",
        "o", "m">>,
      <<"o", "r", "a", "c", "l", "e", ":", "/", "/", "h", "/", "d", "b">>,
      <<"r", "e", "d", "i", "s", ":", "/", "/", "h">>,
      <<"f", "t", "p", ":", "/", "/", "h", "/", "d", "b">>,
      <<"h", "/", "d", "b">>,
      <<>> }
ApiKeys == { <<>>, <<"k">>, <<" ">> }
IntervalStrings ==
    { <<"5">>,
      <<"1", "0">>,
      <<"9", "s">>,
      <<"1", "0", "s">>,
      <<"1", "m">>,
      <<"x">>,
      <<>>,
      <<" ", "3", "0", " ">>,
      <<"0">>,
      <<"s">> }
IntervalNumbers == {0, 1, 9, 10, 11, 3600}
Option(S) == {None} \cup {Some(x) : x \in S}

Environments ==
    [kind : {"env"}, api_key : Option(ApiKeys), database_url : Option(Urls),
     interval : Option(IntervalStrings)]
Documents ==
    [api_key : ApiKeys, url : Urls, interval_secs : Option(IntervalNumbers)]
Files ==
    [kind : {"file"}, content : Option(Option(Documents))]

\* The URL a source holds, if any.
source_url(src) ==
    IF src.kind = "env" THEN src.database_url
    ELSE IF src.content = None \/ src.content[1] = None THEN None
    ELSE Some(src.content[1][1].url)

\* load_config of main without --config: Config::from_env.
FromEnv ==
    /\ source.kind = "env"
    /\ loaded = NoConfig
    /\ loaded' = from_env(source)
    /\ UNCHANGED <<source, detected>>
    /\ UNCHANGED <<uvars, svars>>

\* load_config of main with --config: Config::from_file.
FromFile ==
    /\ source.kind = "file"
    /\ loaded = NoConfig
    /\ loaded' = from_file(source)
    /\ UNCHANGED <<source, detected>>
    /\ UNCHANGED <<uvars, svars>>

\* DatabaseType::from_url called on the source's URL, as create_collector does.
DetectType ==
    /\ source_url(source) # None
    /\ detected = NoConfig
    /\ detected' = from_url(source_url(source)[1])
    /\ UNCHANGED <<source, loaded>>
    /\ UNCHANGED <<uvars, svars>>

\* main builds the Scheduler on the interval of the Config it loaded.
SchedulerNew ==
    /\ loaded.kind = "Ok"
    /\ interval = 0
    /\ interval' = loaded.config.interval_secs
    /\ UNCHANGED <<pc, now, jitter, deadline, shutdown, rx_unseen, tx_alive, inflight,
                   cycles, stage, run_result, cvars, ovars>>
    /\ UNCHANGED <<uvars, kvars>>

\* main before load_config: no Scheduler yet (interval 0), any environment or
\* file.
InitConfig ==
    /\ max_retries = 3
    /\ UploaderIdle
    /\ interval = 0
    /\ SchedIdle
    /\ source \in Environments \cup Files
    /\ loaded = NoConfig
    /\ detected = NoConfig

NextConfig ==
    \/ FromEnv
    \/ FromFile
    \/ DetectType
    \/ SchedulerNew

SpecConfig == InitConfig /\ [][NextConfig]_vars

(***************************************************************************)
(* Properties of upload() and test_connection(), under SpecUpload.         *)
(***************************************************************************)
RequestIdx == {i \in 1..Len(trace) : trace[i].op = "request"}
SleepIdx == {i \in 1..Len(trace) : trace[i].op = "sleep"}
NumRequests == Cardinality(RequestIdx)
NumSleeps == Cardinality(SleepIdx)
RetryableKinds == {"ServerError", "RateLimited", "RequestError"}

\* The Retry-After values of the model that hold whole seconds, and the
\* seconds they hold.
WholeSecondHeaders == { <<"0">>, <<"3">>, <<"1", "2">> }
WholeSeconds(h) ==
    CASE h = <<"0">> -> 0
      [] h = <<"3">> -> 3
      [] h = <<"1", "2">> -> 12

\* The response of request i carried a usable Retry-After on a 429.
SuppliedDelay(i) ==
    /\ trace[i].resp.kind = "http"
    /\ trace[i].resp.status = 429
    /\ trace[i].resp.hdr # None
    /\ trace[i].resp.hdr[1] \in WholeSecondHeaders

RECURSIVE Pow2(_)
Pow2(n) == IF n = 0 THEN 1 ELSE 2 * Pow2(n - 1)

\* C1: one upload() call never issues more than max_retries + 1 requests; if
\* every attempt fails with a retryable error (ServerError, RateLimited,
\* RequestError) it issues exactly max_retries + 1 requests and returns the
\* error of the last attempt.
C1_RetryBudget ==
    call = "upload" =>
        /\ NumRequests <= max_retries + 1
        /\ ( /\ upc = "done"
             /\ ser_ok
             /\ \A i \in RequestIdx : trace[i].res.kind \in RetryableKinds )
           => /\ NumRequests = max_retries + 1
              /\ trace[Len(trace)].op = "request"
              /\ result = trace[Len(trace)].res

\* Budget of 3 retries exhausted by four different retryable failures.
C1_Witness ==
    /\ call = "upload" /\ upc = "done" /\ max_retries = 3
    /\ NumRequests = 4
    /\ trace[1].res.kind = "RequestError"
    /\ trace[3].res.kind = "RateLimited"
    /\ trace[5].res = ServerError(204)
    /\ result = ServerError(500)

\* C2: an attempt answered 401 or 403, first or retry, ends upload() with
\* that AuthError: nothing (no sleep, no request) follows it in the call, and
\* when it is the first attempt the call made exactly one request.
C2_AuthAbort ==
    call = "upload" =>
        \A i \in RequestIdx :
            (trace[i].resp.kind = "http" /\ trace[i].resp.status \in {401, 403})
            => /\ i = Len(trace)
               /\ upc = "done"
               /\ result = AuthError
               /\ (i = 1 => NumRequests = 1)

\* A retry (the third attempt) is rejected with 403.
C2_Witness ==
    /\ call = "upload" /\ upc = "done" /\ max_retries = 3
    /\ Len(trace) = 5
    /\ trace[5].op = "request" /\ trace[5].resp.status = 403
    /\ result = AuthError

\* C3: no sleep precedes the first attempt; attempts and sleeps alternate; a
\* sleep that follows an attempt without a rate-limit-supplied delay lasts 1s
\* when it is the first one and twice the previous sleep otherwise; a 429
\* without a usable Retry-After supplies no delay.
C3_BackoffSchedule ==
    call = "upload" =>
        /\ \A j \in 1..Len(trace) :
              trace[j].op = (IF j % 2 = 1 THEN "request" ELSE "sleep")
        /\ \A j \in SleepIdx :
              ~SuppliedDelay(j - 1)
              => trace[j].d = (IF j = 2 THEN 1 ELSE 2 * trace[j - 2].d)
        /\ \A i \in RequestIdx :
              (trace[i].resp.status = 429 /\ ~SuppliedDelay(i))
              => trace[i].res = RateLimited(None)

\* Three retries slept 1s, 2s, 4s, one of them after a 429 whose Retry-After
\* is not a number.
C3_Witness ==
    /\ call = "upload" /\ Len(trace) = 7
    /\ trace[2].d = 1 /\ trace[4].d = 2 /\ trace[6].d = 4
    /\ trace[3].resp = Http(429, Some(<<"a">>))
    /\ trace[5].resp = Http(429, None)

\* C4: after a 429 with a Retry-After of T whole seconds the next attempt, if
\* there is one, is preceded by a sleep of exactly T seconds; when no attempt
\* follows, the budget was used up.
C4_RateLimitOverride ==
    call = "upload" =>
        \A i \in RequestIdx :
            SuppliedDelay(i)
            => LET T == WholeSeconds(trace[i].resp.hdr[1])
               IN  /\ i < Len(trace) => trace[i + 1] = Sleep(T)
                   /\ i = Len(trace)
                      => \/ upc = "loop" /\ retry_delay = T
                         \/ upc = "done" /\ NumRequests = max_retries + 1

\* T = 12 where the backoff stood at 1s, then T = 3 where it stood at 24s,
\* then T = 0.
C4_Witness ==
    /\ call = "upload" /\ Len(trace) = 6
    /\ trace[1].resp = Http(429, Some(<<"1", "2">>)) /\ trace[2].d = 12
    /\ trace[3].resp = Http(429, Some(<<"3">>)) /\ trace[4].d = 3
    /\ trace[5].resp = Http(429, Some(<<"0">>)) /\ trace[6].d = 0

\* C5: upload() returns Ok at the first attempt that succeeds and nothing
\* follows it; a call that returned Ok after k requests slept k-1 times, and,
\* no rate-limit delay having been supplied, for 1s, 2s, 4s, ... in turn.
C5_FirstSuccess ==
    call = "upload" =>
        /\ \A i \in RequestIdx :
              trace[i].res.kind = "Ok"
              => /\ i = Len(trace)
                 /\ upc = "done"
                 /\ result = OkResult
                 /\ \A h \in RequestIdx \ {i} : trace[h].res.kind \in RetryableKinds
        /\ (upc = "done" /\ result = OkResult)
           => LET k == NumRequests
              IN  /\ k >= 1 /\ k <= max_retries + 1
                  /\ trace[Len(trace)].res.kind = "Ok"
                  /\ NumSleeps = k - 1
                  /\ (\A i \in RequestIdx : ~SuppliedDelay(i))
                     => \A j \in 1..(k - 1) : trace[2 * j].d = Pow2(j - 1)

\* max_retries = 2 and the responses 500, 500, 200: three requests, sleeps of
\* 1s and 2s, Ok.
C5_Witness ==
    /\ call = "upload" /\ upc = "done" /\ max_retries = 2
    /\ Len(trace) = 5
    /\ trace[1].resp.status = 500 /\ trace[2].d = 1
    /\ trace[3].resp.status = 500 /\ trace[4].d = 2
    /\ trace[5].resp.status = 200
    /\ result = OkResult

\* C6: when serializing the payload fails, upload() has returned
\* SerializationError without any request or sleep.
C6_SerializationAbort ==
    (call = "upload" /\ ~ser_ok)
    => /\ upc = "done"
       /\ result = SerializationError
       /\ trace = <<>>

\* upload() returned on a payload that does not serialize.
C6_Witness ==
    /\ call = "upload" /\ ~ser_ok /\ upc = "done"
    /\ result.kind = "SerializationError"

\* What the status of an answered request is to be classified as.
ExpectedUploadResult(resp) ==
    IF resp.status >= 200 /\ resp.status <= 299 THEN OkResult
    ELSE IF resp.status \in {401, 403} THEN AuthError
    ELSE IF resp.status = 429
         THEN RateLimited(IF resp.hdr # None /\ resp.hdr[1] \in WholeSecondHeaders
                          THEN Some(WholeSeconds(resp.hdr[1]))
                          ELSE None)
    ELSE ServerError(resp.status)

\* C7: every answered upload attempt is classified by its status: 2xx is a
\* success, 401 and 403 AuthError, 429 RateLimited with retry_after set exactly
\* for a whole-seconds Retry-After, anything else ServerError with the status.
C7_StatusClassification ==
    call = "upload" =>
        \A i \in RequestIdx :
            trace[i].resp.kind = "http"
            => trace[i].res = ExpectedUploadResult(trace[i].resp)

\* What the status of an answered probe is to be reported as.
ExpectedProbeResult(resp) ==
    IF resp.status >= 200 /\ resp.status <= 299 THEN OkResult
    ELSE IF resp.status \in {401, 403} THEN AuthError
    ELSE ServerError(resp.status)

\* C8: test_connection() issues exactly one probe and no retry, and reports an
\* answered probe as Ok for a success status, AuthError for 401 and 403, and
\* ServerError for every other status.
C8_ProbeClassification ==
    call = "test_connection" =>
        /\ Len(trace) = 1
        /\ trace[1].op = "probe"
        /\ upc = "done"
        /\ trace[1].resp.kind = "http" => result = ExpectedProbeResult(trace[1].resp)

(***************************************************************************)
(* Properties of run(), under Spec.                                        *)
(***************************************************************************)
\* C9: at most one collect_and_upload cycle is in flight at any moment, and a
\* cycle is in flight exactly while run() is inside it: every earlier cycle
\* has returned, no later than the next one started.
C9_NoOverlap ==
    /\ inflight \in {0, 1}
    /\ inflight = 1 <=> pc \in {"collect", "upload"}
    /\ \A i \in 1..Len(cycles) :
          IF i = Len(cycles)
          THEN (cycles[i].end = -1) <=> (inflight = 1)
          ELSE cycles[i].end >= cycles[i].start /\ cycles[i].end <= cycles[i + 1].start

\* A cycle that ran for more than two intervals has been followed by another
\* cycle, which is running.
C9_Witness ==
    /\ Len(cycles) >= 2
    /\ inflight = 1
    /\ LET c == cycles[Len(cycles) - 1] IN c.end - c.start > 2 * interval

\* C10: no cycle starts once the cancellation signal is true.
C10_NoCycleAfterCancel ==
    \A i \in 1..Len(cycles) : ~cycles[i].cancelled

(***************************************************************************)
(* Cycles of run() and cancellation.                                       *)
(***************************************************************************)
CycleIdx == 1..Len(cycles)

EndStages == {"collect_err", "upload_err", "ok"}

\* C11: a cycle that has started is never aborted by cancellation: a cycle
\* during which the signal became true is either still running, with run()
\* inside its collect() or upload(), or has ended by its own return; and
\* when run() has returned no cycle is left unfinished.
C11_CycleRunsToReturn ==
    /\ \A i \in CycleIdx :
          cycles[i].hit =>
             \/ /\ cycles[i].end = -1
                /\ i = Len(cycles)
                /\ pc \in {"collect", "upload"}
                /\ stage = pc
                /\ run_result = NoResult
             \/ /\ cycles[i].end >= cycles[i].start
                /\ (i = Len(cycles) => stage \in EndStages)
    /\ pc = "returned" =>
          /\ inflight = 0
          /\ \A i \in CycleIdx : cycles[i].end # -1
          /\ (cycles # <<>> => stage \in EndStages)

\* The signal arrived during a cycle that then went through collect() and
\* upload() before run() returned.
C11_Witness ==
    /\ pc = "returned"
    /\ cycles # <<>>
    /\ cycles[Len(cycles)].hit
    /\ ~cycles[Len(cycles)].cancelled
    /\ cycles[Len(cycles)].end > cycles[Len(cycles)].start
    /\ stage = "ok"

\* C12: a failed collect() or upload() never makes run() return: run() has
\* no result but Ok, and after a failed cycle, while cancellation is not
\* signalled, run() is at its wait, where a ready tick starts the next cycle.
C12_FailuresAbsorbed ==
    /\ run_result \in {NoResult, OkResult}
    /\ (stage \in {"collect_err", "upload_err"} /\ ~shutdown) =>
          /\ pc = "select"
          /\ run_result = NoResult
          /\ (tick_ready => ENABLED TickBranch)

\* Two cycles failed in collect(), a third started all the same and failed
\* in upload(), and run() waits for the next tick.
C12_Witness ==
    /\ collect_calls >= 3
    /\ upload_calls = 1
    /\ stage = "upload_err"
    /\ pc = "select"
    /\ ~shutdown

\* C16: when every cycle is shorter than the interval, the first cycle
\* starts right after the jitter and every later cycle one full interval
\* after the start of the one before.
C16_FixedPeriod ==
    (\A i \in CycleIdx :
        IF cycles[i].end = -1
        THEN now - cycles[i].start < interval
        ELSE cycles[i].end - cycles[i].start < interval)
    => /\ (cycles # <<>> => cycles[1].start = jitter)
       /\ \A i \in 1..(Len(cycles) - 1) :
             cycles[i + 1].start = cycles[i].start + interval

\* C17: run() returns only Ok, and only from its wait between cycles with
\* the signal's value true; no tick, no false notification and no closing of
\* the sender makes it return.
C17_ReturnsOnlyOnTrue ==
    [][/\ (pc # "returned" /\ pc' = "returned") =>
             /\ pc = "select"
             /\ shutdown
             /\ changed_ready
             /\ inflight = 0
             /\ run_result' = OkResult
       /\ run_result' # NoResult => (pc' = "returned" /\ run_result' = OkResult)]_vars

\* A false notification is pending and the sender is gone without having
\* sent true, while run() is at its wait after a cycle.
C17_Witness ==
    /\ pc = "select"
    /\ cycles # <<>>
    /\ rx_unseen
    /\ ~shutdown
    /\ ~tx_alive
    /\ run_result = NoResult

\* C18: once the signal is true, run() eventually returns Ok.
C18_EventuallyReturns ==
    shutdown ~> (pc = "returned" /\ run_result = OkResult)

\* run() returned after a signal that arrived while a cycle longer than the
\* interval was running, a tick being due at the wait that followed.
C18_Witness ==
    /\ pc = "returned"
    /\ run_result = OkResult
    /\ shutdown
    /\ cycles # <<>>
    /\ cycles[Len(cycles)].hit
    /\ cycles[Len(cycles)].end - cycles[Len(cycles)].start > interval
    /\ tick_ready

\* C19: the signal starts false, is set to true only by the signal handler
\* (which then drops the sender), and is never cleared.
C19_SignalMonotonic ==
    /\ shutdown = FALSE
    /\ [][/\ (shutdown => shutdown')
          /\ (shutdown' # shutdown => (tx_alive /\ ~tx_alive'))]_vars

\* The signal is true, its sender is gone, and run() went on to finish a
\* cycle afterwards.
C19_Witness ==
    /\ shutdown
    /\ ~tx_alive
    /\ cycles # <<>>
    /\ cycles[Len(cycles)].hit
    /\ cycles[Len(cycles)].end # -1

\* C20: every payload returned by collect() carries a non-empty instance
\* identifier.
C20_InstanceIdSet ==
    payload # None => payload[1].instance_id # EmptyString

(***************************************************************************)
(* run_once.                                                               *)
(***************************************************************************)
\* C13: run_once() never invokes the uploader: no upload() is counted and
\* the uploader stays idle with an empty trace.
C13_DryRunIsolation ==
    /\ upload_calls = 0
    /\ call = "none"
    /\ upc = "idle"
    /\ trace = <<>>

\* run_once() returned Ok with a collected payload printed.
C13_Witness ==
    /\ once.pc = "done"
    /\ once.collected = "ok"
    /\ once.printed
    /\ payload # None

\* C14: each run_once() call has made exactly one collect() call, and when
\* that call failed run_once() returns CollectionError and has printed
\* nothing.
C14_CollectOnceAndPropagate ==
    /\ once.pc # "idle" => collect_calls = once.calls
    /\ once.pc = "idle" => collect_calls = once.calls
    /\ once.collected = "err" =>
          /\ once.result = CollectionError
          /\ ~once.printed
    /\ Len(stdout) <= once.calls
    /\ (once.pc = "done" /\ once.collected = "err") => Len(stdout) < once.calls

\* A run_once() call whose collect() failed has returned.
C14_Witness ==
    /\ once.pc = "done"
    /\ once.collected = "err"
    /\ once.result = CollectionError
    /\ stdout = <<>>

\* C15: run_once() returns Ok only when the payload was printed.
C15_OkOnlyWhenPrinted ==
    (once.pc = "done" /\ once.result = OkResult) => once.printed

(***************************************************************************)
(* The calls a cycle makes, and the ticks after a slow cycle.              *)
(***************************************************************************)
\* C23: every cycle calls collect() once; upload() is called once, on
\* collect()'s Ok and with the payload it returned, so never after a failed
\* collect() and never again after upload() returned.
C23_CollectThenUpload ==
    /\ [](/\ collect_calls = Len(cycles)
          /\ upload_calls <= collect_calls
          /\ (pc = "collect" => (payload = None /\ uploaded = None))
          /\ (pc = "upload" =>
                /\ stage = "upload"
                /\ payload # None
                /\ uploaded = payload
                /\ payload[1].timestamp \in cycles[Len(cycles)].start..now)
          /\ (stage \in EndStages => uploaded = None))
    /\ [][/\ (collect_calls' # collect_calls =>
                /\ collect_calls' = collect_calls + 1
                /\ Len(cycles') = Len(cycles) + 1
                /\ pc' = "collect")
          /\ (upload_calls' # upload_calls =>
                /\ pc = "collect" /\ pc' = "upload"
                /\ upload_calls' = upload_calls + 1
                /\ uploaded' = payload' /\ payload' # None)
          /\ ((pc = "collect" /\ pc' # "collect") =>
                \/ pc' = "upload" /\ upload_calls' = upload_calls + 1
                \/ pc' = "select" /\ stage' = "collect_err"
                                  /\ upload_calls' = upload_calls)
          /\ ((pc = "upload" /\ pc' # "upload") =>
                /\ pc' = "select"
                /\ upload_calls' = upload_calls
                /\ collect_calls' = collect_calls)]_vars

\* A cycle whose collect() failed and a cycle whose upload() failed are
\* behind: two collect() calls, one upload() call.
C23_Witness ==
    /\ collect_calls = 2
    /\ upload_calls = 1
    /\ stage = "upload_err"
    /\ pc = "select"
    /\ uploaded = None

\* C24: missed ticks are skipped: a cycle started by a tick leaves the next
\* tick in the future, at most one interval away, so two cycles started by
\* ticks never start at the same moment, however many tick boundaries the
\* cycle before overran.
C24_NoCatchUpBurst ==
    /\ \A i \in 2..(Len(cycles) - 1) : cycles[i + 1].start > cycles[i].start
    /\ Len(cycles) >= 2 =>
          /\ deadline > cycles[Len(cycles)].start
          /\ deadline <= cycles[Len(cycles)].start + interval

\* A cycle overran two tick boundaries or more, one cycle started on its
\* return and ended at once, and the next one started later.
C24_Witness ==
    \E i \in 1..(Len(cycles) - 2) :
        /\ cycles[i].end - cycles[i].start >= 2 * interval
        /\ cycles[i + 1].start = cycles[i].end
        /\ cycles[i + 1].end = cycles[i + 1].start
        /\ cycles[i + 2].start > cycles[i + 1].start

\* C25: when a cycle starts on the return of a cycle that a tick had
\* started, the next tick is one full interval after that return.
C25_PeriodFromReturn ==
    (/\ Len(cycles) >= 3
     /\ cycles[Len(cycles)].start = cycles[Len(cycles) - 1].end)
    => deadline = cycles[Len(cycles)].start + interval

\* C29: run() returns only after a first cycle has run to its end: a signal
\* sent before or during the jitter sleep, or during the first cycle, leaves
\* run() without a result until then.
C29_FirstCycleAlways ==
    /\ pc = "returned" => (cycles # <<>> /\ cycles[1].end # -1)
    /\ (cycles = <<>> \/ cycles[1].end = -1) =>
          (run_result = NoResult /\ pc \in {"start", "jitter", "collect", "upload"})

\* The signal was true before the first cycle started; run() ran that cycle,
\* and only that one, and returned.
C29_Witness ==
    /\ pc = "returned"
    /\ Len(cycles) = 1
    /\ cycles[1].cancelled
    /\ cycles[1].end >= cycles[1].start

(***************************************************************************)
(* upload(): what a call starts from and what it can return.               *)
(***************************************************************************)
\* C26: every upload() call starts from attempt 0, a retry delay of 1s and no
\* recorded error, so its first retry sleeps 1s unless the server supplied a
\* delay, whatever the call before did; and no step changes max_retries or
\* the interval.
C26_NoCarriedState ==
    /\ [](call = "upload" =>
            /\ (trace = <<>> /\ upc = "loop") =>
                  (attempt = 0 /\ retry_delay = BaseDelay /\ last_error = None)
            /\ (Len(trace) >= 2 /\ ~SuppliedDelay(1)) => trace[2] = Sleep(BaseDelay)
            /\ attempt <= NumRequests)
    /\ [][max_retries' = max_retries /\ interval' = interval]_vars

\* The call before failed with its delay grown past 1s; this call used its
\* whole budget, its first retry after 1s.
C26_Witness ==
    /\ prev_call.failed
    /\ prev_call.retry_delay > BaseDelay
    /\ call = "upload" /\ upc = "done"
    /\ max_retries >= 1
    /\ NumRequests = max_retries + 1
    /\ trace[2] = Sleep(BaseDelay)

\* C27: upload() never returns MaxRetriesExceeded: a call whose payload
\* serialized has made at least one request when it returns, and when the
\* loop ran out the error it returns is the one recorded last.
C27_NeverMaxRetriesExceeded ==
    call = "upload" =>
        /\ result # MaxRetriesExceeded
        /\ (upc = "done" /\ ser_ok) =>
              /\ NumRequests >= 1
              /\ result = trace[Len(trace)].res
              /\ (result.kind \in RetryableKinds =>
                    (last_error = Some(result) /\ attempt = max_retries + 1))

\* max_retries = 0: one attempt, and its error is what upload() returns.
C27_Witness ==
    /\ call = "upload" /\ upc = "done"
    /\ max_retries = 0
    /\ NumRequests = 1
    /\ result = ServerError(500)
    /\ last_error = Some(result)

\* C28: after a sleep of a server-supplied delay T, the sleeps that follow in
\* the same call, up to the next supplied delay, are 2T, 4T, ...; with T = 0
\* they are all 0.
C28_DoublingFromOverride ==
    call = "upload" =>
        \A j \in SleepIdx :
            SuppliedDelay(j - 1) =>
                LET T == WholeSeconds(trace[j - 1].resp.hdr[1])
                IN  \A k \in SleepIdx :
                        (/\ k > j
                         /\ \A i \in RequestIdx : (j < i /\ i < k) => ~SuppliedDelay(i))
                        => /\ trace[k].d = T * Pow2((k - j) \div 2)
                           /\ (T = 0 => trace[k].d = 0)

\* A delay of 3s was supplied at the first attempt and the retries slept 3s,
\* 6s and 12s.
C28_Witness ==
    /\ call = "upload" /\ Len(trace) >= 6
    /\ trace[1].resp = Http(429, Some(<<"3">>))
    /\ trace[2].d = 3 /\ trace[4].d = 6 /\ trace[6].d = 12
    /\ trace[3].res = ServerError(500)
    /\ trace[5].res = RequestError

(***************************************************************************)
(* Config.                                                                 *)
(***************************************************************************)
\* The types C22 names, and the type it gives a URL: the Redshift host
\* whatever the scheme, then the schemes and the other host hints.
NamedTypes ==
    {"Postgres", "Timescaledb", "Cockroachdb", "Yugabytedb", "Redshift", "Mysql",
     "Mongodb", "Sqlserver", "Cosmosdb", "Snowflake"}

ClaimedType(url) ==
    LET l == to_lowercase(url)
    IN
        IF (contains(l,
                 <<"r", "e", "d", "s", "h", "i", "f", "t", ".", "a", "m",
                   "a", "z", "o", "n", "a", "w", "s", ".", "c", "o", "m">>))
        THEN OkType("Redshift")
        ELSE IF (starts_with(l,
                 <<"p", "o", "s", "t", "g", "r", "e", "s", ":", "/", "/">>)) \/
            (starts_with(l,
                 <<"p", "o", "s", "t", "g", "r", "e", "s", "q", "l", ":",
                   "/", "/">>))
        THEN (IF (contains(l,
                      <<"t", "i", "m", "e", "s", "c", "a", "l", "e">>))
             THEN OkType("Timescaledb")
             ELSE IF (contains(l,
                          <<"c", "o", "c", "k", "r", "o", "a", "c", "h">>))
             THEN OkType("Cockroachdb")
             ELSE IF (contains(l,
                          <<"y", "u", "g", "a", "b", "y", "t", "e">>))
             THEN OkType("Yugabytedb")
             ELSE OkType("Postgres"))
        ELSE IF (starts_with(l,
                 <<"m", "y", "s", "q", "l", ":", "/", "/">>)) \/
            (starts_with(l,
                 <<"m", "a", "r", "i", "a", "d", "b", ":", "/", "/">>))
        THEN OkType("Mysql")
        ELSE IF (starts_with(l,
                 <<"m", "o", "n", "g", "o", "d", "b", ":", "/", "/">>)) \/
            (starts_with(l,
                 <<"m", "o", "n", "g", "o", "d", "b", "+", "s", "r", "v",
                   ":", "/", "/">>))
        THEN OkType("Mongodb")
        ELSE IF (starts_with(l,
                 <<"s", "q", "l", "s", "e", "r", "v", "e", "r", ":", "/",
                   "/">>)) \/
            (starts_with(l,
                 <<"m", "s", "s", "q", "l", ":", "/", "/">>))
        THEN OkType("Sqlserver")
        ELSE IF (contains(l,
                 <<"c", "o", "s", "m", "o", "s", ".", "a", "z", "u", "r",
                   "e", ".", "c", "o", "m">>))
        THEN OkType("Cosmosdb")
        ELSE IF (contains(l,
                 <<"s", "n", "o", "w", "f", "l", "a", "k", "e", "c", "o",
                   "m", "p", "u", "t", "i", "n", "g", ".", "c", "o", "m">>))
        THEN OkType("Snowflake")
        ELSE ConfigErr("UnsupportedDatabase")

\* C22: from_url gives every URL the type the rules above give it (a URL
\* that from_url puts in a type the claim does not name is left aside).
C22_UrlClassification ==
    detected # NoConfig =>
        LET url == source_url(source)[1]
        IN  \/ (from_url(url).kind = "Ok" /\ from_url(url).value \notin NamedTypes)
            \/ detected = ClaimedType(url)

\* C30: a Config that from_env or from_file returned has a non-empty API
\* key, a non-empty URL of a type from_url detects and an interval of at
\* least 10 seconds, and it is the source's; a Scheduler built from it has
\* that interval, never zero.
C30_ValidatedConfig ==
    /\ loaded.kind = "Ok" =>
          /\ loaded.config.api_key # <<>>
          /\ loaded.config.url # <<>>
          /\ loaded.config.url = source_url(source)[1]
          /\ from_url(loaded.config.url).kind = "Ok"
          /\ loaded.config.interval_secs >= 10
          /\ (detected # NoConfig => detected.kind = "Ok")
    /\ loaded.kind = "Err" =>
          loaded.error \in {"MissingField", "ValidationError", "UnsupportedDatabase",
                            "ReadError", "ParseError"}
    /\ interval # 0 => (loaded.kind = "Ok" /\ interval = loaded.config.interval_secs
                        /\ interval >= 10)

\* COLLECTION_INTERVAL=10s, the least interval that passes: the Config was
\* returned and the Scheduler built on 10 seconds.
C30_Witness ==
    /\ source.kind = "env"
    /\ source.interval = Some(<<"1", "0", "s">>)
    /\ loaded.kind = "Ok"
    /\ interval = 10

====
